---- MODULE Spec2Model ----
(***************************************************************************)
(* NeuroPlan v.2: the task tree manager (task_manager.py), its outline     *)
(* persistence (org_storage.py) and the reminder scheduler                 *)
(* (reminder_system.py), modelled as a state machine.                      *)
(*                                                                         *)
(* Task objects are heap objects named by a reference; the reference of an *)
(* object is the id it was created with.  TaskManager.tasks is a Python    *)
(* dict: the sequence `order` holds its keys in insertion order and `objs` *)
(* holds the objects.  Objects that left the dict but are still held by a  *)
(* children list stay in `objs`.                                           *)
(***************************************************************************)
EXTENDS Integers, Sequences, FiniteSets, TLC

VARIABLES
    objs,        \* heap: reference -> Task object (fields of the dataclass)
    order,       \* keys of TaskManager.tasks, in dict insertion order
    disk,        \* org_files directory: filename -> sequence of outline nodes
    err,         \* exception raised by the last operation, or "ok"
    now,         \* the clock (datetime.datetime.now()), in time units
    nextId,      \* number of ids handed out so far (uuid4 never repeats)
    last,        \* the last operation, what it was applied to and its arguments
    sent_reminders, \* ReminderSystem.sent_reminders
    emitted,     \* notifications delivered so far: identity -> count
    lastTick,    \* what the last completed scheduler tick did
    running,     \* ReminderSystem.running
    threads,     \* the loop threads created by start(), in creation order
    tick,        \* the loop thread inside _check_all_reminders
    fg           \* the foreground thread inside a TaskManager mutation

vars == <<objs, order, disk, err, now, nextId, last, sent_reminders, emitted,
          lastTick, running, threads, tick, fg>>

----------------------------------------------------------------------------
(* Bounds of the model *)

MaxTasks == 3          \* ids handed out by add_task in one behaviour
UnitsPerMinute == 2    \* clock resolution: time units per minute
MaxEmit == 2           \* cap of the per-identity delivery counter
MaxNodes == 3          \* nodes of a hand-written outline file

(* Program constants *)

DefaultReminderMinutes == 30   \* Task.reminder_minutes default
OverdueMinutes == 30           \* fixed lead of the overdue reminder
BeforeMinutes == 30            \* fixed lead of the before-due reminder

----------------------------------------------------------------------------
(* Values *)

None == 0                      \* Python None for ids and datetimes
NoStr == "<None>"              \* Python None for optional strings
Ids == 1..MaxTasks
Files == {"a.org", "b.org"}
RecursionLimit == MaxTasks + 2 \* depth at which Python raises RecursionError;
                               \* above every depth an acyclic tree can reach

Minutes(n) == n * UnitsPerMinute

Range(s) == {s[i] : i \in 1..Len(s)}

Keys == Range(order)

RECURSIVE SeqOfSet(_)
SeqOfSet(S) ==
    IF S = {} THEN <<>>
    ELSE LET x == CHOOSE y \in S : \A z \in S : y <= z
         IN  <<x>> \o SeqOfSet(S \ {x})

(* class Task: the dataclass and its defaults *)
Task(id, title, parent_id, file, created_at) ==
    [id |-> id, title |-> title, description |-> "", author |-> NoStr,
     status |-> "TODO", priority |-> "D", due_date |-> None,
     scheduled_date |-> None,
     reminder_minutes |-> DefaultReminderMinutes, reminder_enabled |-> TRUE,
     tags |-> {}, children |-> <<>>, parent_id |-> parent_id,
     created_at |-> created_at, file |-> file]

----------------------------------------------------------------------------
(* sorted(..., key=lambda t: t.created_at): a stable sort of references *)

RECURSIVE InsertByCreated(_, _, _)
InsertByCreated(o, r, s) ==
    IF s = <<>> THEN <<r>>
    ELSE IF o[Head(s)].created_at <= o[r].created_at
         THEN <<Head(s)>> \o InsertByCreated(o, r, Tail(s))
         ELSE <<r>> \o s

RECURSIVE SortByCreated(_, _)
SortByCreated(o, s) ==
    IF s = <<>> THEN <<>>
    ELSE InsertByCreated(o, s[Len(s)], SortByCreated(o, SubSeq(s, 1, Len(s) - 1)))

----------------------------------------------------------------------------
(* OrgStorage._write_task_node: the outline node of one task, then its     *)
(* children at level + 1.  Returns the nodes written and whether the       *)
(* recursion finished; what was written before a RecursionError stays in   *)
(* the file.                                                               *)

(* strftime('%Y-%m-%d %a %H:%M'): the timestamp cut to the minute *)
FormatScheduled(d) == d - (d % UnitsPerMinute)

OrgNode(t, level) ==
    [level     |-> level,
     todo      |-> IF t.status # "TODO" THEN t.status ELSE "",
     heading   |-> t.title,
     tags      |-> t.tags,
     scheduled |-> IF t.due_date # None THEN FormatScheduled(t.due_date) ELSE None,
     id        |-> t.id,
     parent_id |-> t.parent_id,
     author    |-> t.author,
     status    |-> t.status,
     priority  |-> t.priority,
     created_at |-> t.created_at,
     body      |-> t.description]

RECURSIVE WriteTaskNode(_, _, _)
RECURSIVE WriteChildren(_, _, _)
WriteTaskNode(o, r, level) ==
    IF level > RecursionLimit THEN [nodes |-> <<>>, ok |-> FALSE]
    ELSE LET kids == WriteChildren(o, SortByCreated(o, o[r].children), level + 1)
         IN  [nodes |-> <<OrgNode(o[r], level)>> \o kids.nodes, ok |-> kids.ok]

WriteChildren(o, s, level) ==
    IF s = <<>> THEN [nodes |-> <<>>, ok |-> TRUE]
    ELSE LET first == WriteTaskNode(o, Head(s), level)
         IN  IF ~first.ok THEN first
             ELSE LET rest == WriteChildren(o, Tail(s), level)
                  IN  [nodes |-> first.nodes \o rest.nodes, ok |-> rest.ok]

(* tasks_by_file: the filenames in order of first appearance *)
RECURSIVE FileOrder(_, _)
FileOrder(o, s) ==
    IF s = <<>> THEN <<>>
    ELSE LET rest == FileOrder(o, SubSeq(s, 1, Len(s) - 1))
             f == o[s[Len(s)]].file
         IN  IF f \in Range(rest) THEN rest ELSE Append(rest, f)

TasksOfFile(o, s, f) == SelectSeq(s, LAMBDA r : o[r].file = f)

(* OrgStorage.save: one file per filename, each task of the list at level  *)
(* 1 followed by its children.  os.path.join raises TypeError for a task   *)
(* whose file is None; files of earlier groups are already rewritten.      *)
RECURSIVE SaveFiles(_, _, _, _)
SaveFiles(o, s, files, d) ==
    IF files = <<>> THEN [disk |-> d, err |-> "ok"]
    ELSE LET f == Head(files) IN
         IF f = NoStr THEN [disk |-> d, err |-> "TypeError"]
         ELSE LET w == WriteChildren(o, SortByCreated(o, TasksOfFile(o, s, f)), 1)
                  d1 == [g \in (DOMAIN d) \cup {f} |-> IF g = f THEN w.nodes ELSE d[g]]
              IN  IF ~w.ok THEN [disk |-> d1, err |-> "RecursionError"]
                  ELSE SaveFiles(o, s, Tail(files), d1)

Save(o, s, d) == SaveFiles(o, s, FileOrder(o, s), d)

----------------------------------------------------------------------------
(* OrgStorage.load: every node of every .org file, in directory listing    *)
(* order, as a flat dictionary.  Status(...) and Priority(...) raise       *)
(* ValueError for a value that is none of the codes, and nothing in load   *)
(* catches it.  Nodes written by save carry no reminder_minutes and no     *)
(* reminder_enabled.                                                       *)

NA == 0 - 1                    \* the id "N/A" of a node without an id property
Ghost == MaxTasks + 1          \* an id that no task ever has
StatusCodes == {"TODO", "DONE", "WAITING"}
PriorityCodes == {"A", "B", "C", "D"}

TaskDict(n, filename, clock) ==
    [id          |-> IF n.id = None THEN NA ELSE n.id,
     title       |-> n.heading,
     description |-> n.body,
     author      |-> n.author,
     status      |-> n.status,
     priority    |-> n.priority,
     due_date    |-> n.scheduled,
     tags        |-> n.tags,
     parent_id   |-> n.parent_id,
     created_at  |-> IF n.created_at = None THEN clock ELSE n.created_at,
     file        |-> filename]

WellFormed(n) == n.status \in StatusCodes /\ n.priority \in PriorityCodes

RECURSIVE LoadNodes(_, _, _)
LoadNodes(nodes, filename, clock) ==
    IF nodes = <<>> THEN [data |-> <<>>, err |-> "ok"]
    ELSE IF ~WellFormed(Head(nodes)) THEN [data |-> <<>>, err |-> "ValueError"]
    ELSE LET rest == LoadNodes(Tail(nodes), filename, clock)
         IN  [data |-> <<TaskDict(Head(nodes), filename, clock)>> \o rest.data,
              err  |-> rest.err]

RECURSIVE StorageLoad(_, _, _)
StorageLoad(d, listing, clock) ==
    IF listing = <<>> THEN [data |-> <<>>, err |-> "ok"]
    ELSE LET first == LoadNodes(d[Head(listing)], Head(listing), clock)
         IN  IF first.err # "ok" THEN first
             ELSE LET rest == StorageLoad(d, Tail(listing), clock)
                  IN  [data |-> first.data \o rest.data, err |-> rest.err]

(* os.listdir returns the files in arbitrary order *)
Listings(d) ==
    {s \in [1..Cardinality(DOMAIN d) -> DOMAIN d] :
        \A i, j \in DOMAIN s : i # j => s[i] # s[j]}

----------------------------------------------------------------------------
(* TaskManager.load_tasks *)

(* Task constructed from filtered_data: the fields of the dictionary, and   *)
(* the dataclass defaults for the rest                                     *)
TaskFromDict(data) ==
    [Task(data.id, data.title, data.parent_id, data.file, data.created_at)
        EXCEPT !.description = data.description, !.author = data.author,
               !.status = data.status, !.priority = data.priority,
               !.due_date = data.due_date, !.tags = data.tags]

(* temp_tasks[id] = Task(...): the key keeps the position of its first     *)
(* insertion, the value is the last one assigned                           *)
RECURSIVE TempOrder(_)
TempOrder(data) ==
    IF data = <<>> THEN <<>>
    ELSE LET rest == TempOrder(SubSeq(data, 1, Len(data) - 1))
             k == data[Len(data)].id
         IN  IF k \in Range(rest) THEN rest ELSE Append(rest, k)

TempTasks(data) ==
    [k \in {data[i].id : i \in DOMAIN data} |->
        LET i == CHOOSE j \in DOMAIN data :
                    data[j].id = k /\ \A l \in DOMAIN data : data[l].id = k => l <= j
        IN  TaskFromDict(data[i])]

(* one pass of the rebuild loop: the task's own children list is reset     *)
(* when the loop reaches the task, then the task is appended to its parent *)
RebuildStep_NoHeal(o, k) ==
    LET o1 == [o EXCEPT ![k].children = <<>>]
        p == o1[k].parent_id
    IN  IF p # None /\ p \in DOMAIN o1
        THEN [o1 EXCEPT ![p].children = Append(@, k)]
        ELSE o1

RebuildStep(o, k) ==
    LET o1 == [o EXCEPT ![k].children = <<>>]
        p == o1[k].parent_id
    IN  IF p # None /\ p \in DOMAIN o1
        THEN [o1 EXCEPT ![p].children = Append(@, k)]
        ELSE [o1 EXCEPT ![k].parent_id = None]

RECURSIVE Rebuild(_, _)
Rebuild(o, s) ==
    IF s = <<>> THEN o ELSE Rebuild(RebuildStep(o, Head(s)), Tail(s))

LoadTasks(data) ==
    [objs |-> Rebuild(TempTasks(data), TempOrder(data)), order |-> TempOrder(data)]

----------------------------------------------------------------------------
(* Objects reachable from the dict through children lists; the rest is     *)
(* garbage                                                                 *)

RECURSIVE Reach(_, _, _)
Reach(o, S, n) ==
    LET T == S \cup UNION {Range(o[r].children) : r \in S}
    IN  IF n = 0 \/ T = S THEN S ELSE Reach(o, T, n - 1)

Collect(o, s) ==
    LET live == Reach(o, Range(s), Cardinality(DOMAIN o))
    IN  [r \in live |-> o[r]]

----------------------------------------------------------------------------
(* TaskManager operations on st = [objs, order, disk, err]                 *)

(* TaskManager.save_tasks *)
SaveTasks_Partial(o, s, d) ==
    LET sv == Save(o, SubSeq(s, 1, Len(s) - 1), d)
    IN  [objs |-> o, order |-> s, disk |-> sv.disk, err |-> sv.err]

SaveTasks(o, s, d) ==
    LET sv == Save(o, s, d)
    IN  [objs |-> o, order |-> s, disk |-> sv.disk, err |-> sv.err]

(* TaskManager.add_task, first part: the Task object is created and put    *)
(* into the dict                                                           *)
InsertTask(st, id, title, parent_id, filename, clock) ==
    [st EXCEPT
        !.objs = [r \in (DOMAIN st.objs) \cup {id} |->
                    IF r = id THEN Task(id, title, parent_id, filename, clock)
                    ELSE st.objs[r]],
        !.order = Append(st.order, id)]

(* TaskManager.add_task, second part: the task is appended to the children *)
(* of its parent, then save_tasks                                          *)
LinkTask(st, id, parent_id) ==
    SaveTasks(IF parent_id # None /\ parent_id \in Range(st.order)
              THEN [st.objs EXCEPT ![parent_id].children = Append(@, id)]
              ELSE st.objs,
              st.order, st.disk)

(* TaskManager.add_task *)
AddTaskOp(st, id, title, parent_id, filename, clock) ==
    LinkTask(InsertTask(st, id, title, parent_id, filename, clock), id, parent_id)

(* setattr for every key of kwargs that the task has *)
ApplyPatch(t, patch) ==
    [f \in DOMAIN t |-> IF f \in DOMAIN patch THEN patch[f] ELSE t[f]]

(* TaskManager.update_task *)
UpdateTaskOp_AlwaysSave(st, task_id, patch) ==
    IF task_id \in Range(st.order)
    THEN SaveTasks([st.objs EXCEPT ![task_id] = ApplyPatch(@, patch)],
                   st.order, st.disk)
    ELSE SaveTasks(st.objs, st.order, st.disk)

UpdateTaskOp(st, task_id, patch) ==
    IF task_id \in Range(st.order)
    THEN SaveTasks([st.objs EXCEPT ![task_id] = ApplyPatch(@, patch)],
                   st.order, st.disk)
    ELSE st

(* TaskManager.delete_task: children first, through the children lists;    *)
(* every level of the recursion ends with save_tasks.  An exception leaves *)
(* the state as it is at the raise.                                        *)
(* the end of one level of delete_task: the task is taken out of the       *)
(* children of its parent and out of the dict, then save_tasks             *)
RemoveTask(st, task_id) ==
    LET p == st.objs[task_id].parent_id
        o2 == IF p # None /\ p \in Range(st.order)
              THEN [st.objs EXCEPT ![p].children =
                      SelectSeq(@, LAMBDA c : st.objs[c].id # task_id)]
              ELSE st.objs
        s2 == SelectSeq(st.order, LAMBDA k : k # task_id)
    IN  SaveTasks(o2, s2, st.disk)

RECURSIVE DeleteTaskRec(_, _, _)
RECURSIVE DeleteChildren(_, _, _)
DeleteTaskRec(st, task_id, depth) ==
    IF depth > RecursionLimit THEN [st EXCEPT !.err = "RecursionError"]
    ELSE IF task_id \notin Range(st.order) THEN st
    ELSE LET st1 == DeleteChildren(st, st.objs[task_id].children, depth + 1)
         IN  IF st1.err # "ok" THEN st1
             ELSE RemoveTask(st1, task_id)

DeleteChildren(st, kids, depth) ==
    IF kids = <<>> THEN st
    ELSE LET st1 == DeleteTaskRec(st, st.objs[Head(kids)].id, depth)
         IN  IF st1.err # "ok" THEN st1
             ELSE DeleteChildren(st1, Tail(kids), depth)

DeleteTaskOp(st, task_id) == DeleteTaskRec(st, task_id, 1)

(* TaskManager.__init__ of a new process over the directory *)
ConstructOp(d, listing, clock) ==
    LET ld == StorageLoad(d, listing, clock)
        lt == LoadTasks(ld.data)
    IN  IF ld.err # "ok"
        THEN [objs |-> <<>>, order |-> <<>>, disk |-> d, err |-> ld.err]
        ELSE [objs |-> lt.objs, order |-> lt.order, disk |-> d, err |-> "ok"]

(* TaskManager.get_task_tree: the top-level tasks, by (priority, created_at) *)
RECURSIVE InsertByPriority(_, _, _)
InsertByPriority(o, r, s) ==
    LET Rank(p) == CHOOSE i \in 1..4 : <<"A", "B", "C", "D">>[i] = p
        Le(a, b) == \/ Rank(o[a].priority) < Rank(o[b].priority)
                    \/ /\ o[a].priority = o[b].priority
                       /\ o[a].created_at <= o[b].created_at
    IN  IF s = <<>> THEN <<r>>
        ELSE IF Le(Head(s), r) THEN <<Head(s)>> \o InsertByPriority(o, r, Tail(s))
        ELSE <<r>> \o s

RECURSIVE SortByPriority(_, _)
SortByPriority(o, s) ==
    IF s = <<>> THEN <<>>
    ELSE InsertByPriority(o, s[Len(s)], SortByPriority(o, SubSeq(s, 1, Len(s) - 1)))

GetTaskTree(o, s) ==
    SortByPriority(o, SelectSeq(s, LAMBDA k : o[k].parent_id = None))

----------------------------------------------------------------------------
(* The foreground thread: one action per TaskManager call                  *)

State == [objs |-> objs, order |-> order, disk |-> disk, err |-> "ok"]

schedVars == <<sent_reminders, emitted, lastTick, running, threads, tick, fg>>

(* the arguments recorded for an operation that has none *)
NoArgs == <<>>

Commit(st, op, id, listing, args) ==
    /\ objs' = Collect(st.objs, st.order)
    /\ order' = st.order
    /\ disk' = st.disk
    /\ err' = st.err
    /\ last' = [op |-> op, id |-> id, listing |-> listing, args |-> args]

(* inputs of the tree specification: a parent that exists, none, or an id  *)
(* that names no task; one outline file, or no filename                    *)
ParentChoices == Keys \cup {None, Ghost}
FileChoices == {"a.org", NoStr}

AddTask(title, parent_id, filename) ==
    /\ nextId < MaxTasks
    /\ nextId' = nextId + 1
    /\ now' = now + 1
    /\ Commit(AddTaskOp(State, nextId + 1, title, parent_id, filename, now),
              "add", nextId + 1, <<>>, [title |-> title])
    /\ UNCHANGED schedVars

add_task(parent_id, filename) == AddTask("t", parent_id, filename)

update_task(task_id, patch) ==
    /\ Commit(UpdateTaskOp(State, task_id, patch), "update", task_id, <<>>, patch)
    /\ UNCHANGED <<now, nextId>>
    /\ UNCHANGED schedVars

delete_task(task_id) ==
    /\ Commit(DeleteTaskOp(State, task_id), "delete", task_id, <<>>, NoArgs)
    /\ UNCHANGED <<now, nextId>>
    /\ UNCHANGED schedVars

(* the application is started again on the same directory *)
load_tasks(listing) ==
    /\ Commit(ConstructOp(disk, listing, now), "load", None, listing, NoArgs)
    /\ UNCHANGED <<now, nextId>>
    /\ UNCHANGED schedVars

(* the loop thread outside _check_all_reminders; the foreground thread     *)
(* outside a TaskManager call; no tick completed yet                       *)
IdleTick ==
    [pc |-> "idle", seen |-> {}, size |-> 0, clock |-> None, cur |-> None,
     emits |-> {}, attempts |-> {}, failed |-> {}, skipped |-> {},
     torn |-> FALSE]
IdleFg ==
    [pc |-> "idle", stack |-> <<>>, pre |-> {}, post |-> {}, id |-> None,
     parent_id |-> None]
NoTick ==
    [at |-> None, emits |-> {}, attempts |-> {}, failed |-> {}, skipped |-> {},
     prev_skipped |-> {}, aborted |-> FALSE, torn |-> FALSE]

(* the one loop thread of a scheduler that main has started, between two   *)
(* ticks                                                                   *)
OneLoop == <<[pc |-> "sleep"]>>

IdleSched ==
    /\ sent_reminders = {}
    /\ emitted = <<>>
    /\ lastTick = NoTick
    /\ running = FALSE
    /\ threads = <<>>
    /\ tick = IdleTick
    /\ fg = IdleFg

EmptyDisk == [f \in {} |-> <<>>]

Init ==
    /\ disk = EmptyDisk
    /\ objs = <<>>
    /\ order = <<>>
    /\ err = "ok"
    /\ now = 1
    /\ nextId = 0
    /\ last = [op |-> "load", id |-> None, listing |-> <<>>, args |-> NoArgs]
    /\ IdleSched

ParentPatches == {[parent_id |-> p] : p \in (1..nextId) \cup {None}}

Next ==
    \/ \E p \in ParentChoices, f \in FileChoices : add_task(p, f)
    \/ \E k \in Ids, patch \in ParentPatches : update_task(k, patch)
    \/ \E k \in Ids : delete_task(k)
    \/ \E l \in Listings(disk) : load_tasks(l)

Spec == Init /\ [][Next]_vars

----------------------------------------------------------------------------
(* The load specification: the application is started on a directory whose *)
(* outline file was written by hand: any sequence of at most MaxNodes      *)
(* well-formed nodes, ids repeated or not, parents present, absent or      *)
(* naming no node, in any order.                                           *)

NodeChoices ==
    {OrgNode(Task(i, "t", p, "a.org", 1), 1) : i \in Ids, p \in Ids \cup {None}}

Directories ==
    {[f \in {"a.org"} |-> nodes] :
        nodes \in UNION {[1..n -> NodeChoices] : n \in 0..MaxNodes}}

InitLoad ==
    /\ disk \in Directories
    /\ LET c == ConstructOp(disk, <<"a.org">>, 1)
       IN  /\ objs = c.objs
           /\ order = c.order
           /\ err = c.err
    /\ now = 1
    /\ nextId = MaxTasks
    /\ last = [op |-> "load", id |-> None, listing |-> <<"a.org">>, args |-> NoArgs]
    /\ IdleSched

NextLoad == \E l \in Listings(disk) : load_tasks(l)

SpecLoad == InitLoad /\ [][NextLoad]_vars

----------------------------------------------------------------------------
(* Claims about the task tree                                              *)

(* the tasks of the map whose parent_id chain leads to id *)
RECURSIVE LeadsTo(_, _, _, _, _)
LeadsTo(o, K, k, id, n) ==
    /\ n > 0
    /\ k \in K
    /\ o[k].parent_id # None
    /\ \/ o[k].parent_id = id
       \/ LeadsTo(o, K, o[k].parent_id, id, n - 1)

Descendants(o, K, id) ==
    {k \in K \ {id} : LeadsTo(o, K, k, id, Cardinality(K))}

IsDelete(k) == last'.op = "delete" /\ last'.id = k /\ k \in Keys

(* C1: delete_task(id) on a task with N descendants removes exactly those  *)
(* N+1 tasks from the map, and no remaining task has a parent_id that      *)
(* points at a removed task (stated for a delete_task that returns         *)
(* without an exception).                                                  *)
C1_DeleteCascades ==
    [][\A k \in Ids :
         (IsDelete(k) /\ err' = "ok") =>
            LET gone == Descendants(objs, Keys, k) \cup {k}
            IN  /\ Range(order') = Keys \ gone
                /\ \A r \in Range(order') : objs'[r].parent_id \notin gone]_vars

(* C2: the children relation is exactly the inverse of parent_id: c is in  *)
(* tasks[p].children if and only if c is in the map and c.parent_id = p.   *)
C2_ChildrenInverse ==
    \A p \in Keys : \A c \in DOMAIN objs :
        (c \in Range(objs[p].children)) <=> (c \in Keys /\ objs[c].parent_id = p)

(* C9: with a cycle of parent links, load_tasks, delete_task and the save  *)
(* that follows a mutation terminate: no operation ends in unbounded       *)
(* recursion.                                                              *)
C9_CycleSafe == err # "RecursionError"

(* the records that the last load read, and their ids *)
LoadedData == StorageLoad(disk, last.listing, now).data
LoadedIds == {LoadedData[i].id : i \in DOMAIN LoadedData}
Dangling(k) ==
    /\ k \in LoadedIds
    /\ TempTasks(LoadedData)[k].parent_id # None
    /\ TempTasks(LoadedData)[k].parent_id \notin LoadedIds

(* C10: a loaded record whose parent_id names an id that is not among the  *)
(* loaded records becomes a root: after load_tasks its parent_id is        *)
(* absent, it is in no task's children, it appears in get_task_tree, and   *)
(* the load raises no error.                                               *)
C10_DanglingParentHeals ==
    last.op = "load" =>
        /\ err = "ok"
        /\ \A k \in LoadedIds :
              Dangling(k) =>
                 /\ k \in Keys
                 /\ objs[k].parent_id = None
                 /\ \A p \in Keys : k \notin Range(objs[p].children)
                 /\ k \in Range(GetTaskTree(objs, order))

C10_Witness ==
    /\ last.op = "load"
    /\ \E k \in LoadedIds : Dangling(k) /\ k \in Keys /\ Cardinality(Keys) > 1

(* a task with no resolvable parent: parent_id absent or naming no key *)
Unresolved(k) == objs[k].parent_id = None \/ objs[k].parent_id \notin Keys

(* C11: get_task_tree returns every task of the map whose parent_id is     *)
(* absent or names an id that is not in the map, and no other task; so     *)
(* every task of the map is a root or reachable from a root through        *)
(* children.                                                               *)
C11_RootsAreUnresolved ==
    LET roots == Range(GetTaskTree(objs, order))
    IN  /\ roots = {k \in Keys : Unresolved(k)}
        /\ Keys \subseteq Reach(objs, roots, Cardinality(DOMAIN objs))

----------------------------------------------------------------------------
(* ReminderSystem                                                          *)

(* ReminderSystem._generate_reminders_for_task: the reminder configurations *)
(* of one task at `clock`.  The identity task_id is                         *)
(* "<id>_<due_date.isoformat()>_<kind>".  enabled and sent are the          *)
(* ReminderConfig defaults.                                                 *)
ReminderConfig(t, kind, trigger_time) ==
    [task_id |-> <<t.id, t.due_date, kind>>, reminder_type |-> kind,
     trigger_time |-> trigger_time, enabled |-> TRUE, sent |-> FALSE]

GenerateRemindersForTask(t, clock) ==
    IF t.due_date = None THEN <<>>
    ELSE LET before_time == t.due_date - Minutes(BeforeMinutes)
             overdue_time == t.due_date + Minutes(OverdueMinutes)
         IN  (IF clock <= t.due_date
              THEN <<ReminderConfig(t, "due", t.due_date)>> ELSE <<>>)
          \o (IF clock <= before_time
              THEN <<ReminderConfig(t, "before", before_time)>> ELSE <<>>)
          \o (IF t.due_date < clock /\ clock <= overdue_time
              THEN <<ReminderConfig(t, "overdue", overdue_time)>> ELSE <<>>)

(* the datetime range: due_date - timedelta(minutes=30) and                 *)
(* due_date + timedelta(minutes=30) are computed for every task that has a  *)
(* due_date, and raise OverflowError outside the range                      *)
DatetimeMax == Minutes(32 + 120)
DatetimeMin == 0 - DatetimeMax

GenerateRaises(t) ==
    /\ t.due_date # None
    /\ \/ t.due_date - Minutes(BeforeMinutes) < DatetimeMin
       \/ t.due_date + Minutes(OverdueMinutes) > DatetimeMax

(* the state of one tick: rs = [sent, emitted, emits, attempts, failed,     *)
(* skipped, aborted]                                                        *)
TickState(sent, e) ==
    [sent |-> sent, emitted |-> e, emits |-> {}, attempts |-> {},
     failed |-> {}, skipped |-> {}, aborted |-> FALSE]

(* ReminderSystem._send_reminder: the task is looked up by the first part   *)
(* of the identity; the notification is delivered (desktop, or console as   *)
(* fallback) and the identity recorded.  For a task in `broken` every       *)
(* output of this tick raises (notify and the console print both fail):     *)
(* the outer except logs it and the identity is not recorded.               *)
Bump(e, i) ==
    [j \in (DOMAIN e) \cup {i} |->
        IF j = i
        THEN (IF i \in DOMAIN e THEN (IF e[i] < MaxEmit THEN e[i] + 1 ELSE e[i]) ELSE 1)
        ELSE e[j]]

SendReminder(s, r, rs, broken) ==
    IF r.task_id[1] \notin Range(s)
    THEN [rs EXCEPT !.attempts = @ \cup {r.task_id}]
    ELSE IF r.task_id[1] \in broken
    THEN [rs EXCEPT !.attempts = @ \cup {r.task_id},
                    !.failed = @ \cup {r.task_id}]
    ELSE [rs EXCEPT !.sent = @ \cup {r.task_id},
                    !.emitted = Bump(@, r.task_id),
                    !.emits = @ \cup {r.task_id},
                    !.attempts = @ \cup {r.task_id}]

(* the condition under which _check_all_reminders sends a reminder *)
ShouldSend_NoDedup(r, clock, sent) ==
    r.enabled /\ ~r.sent /\ clock >= r.trigger_time

ShouldSend(r, clock, sent) ==
    r.enabled /\ ~r.sent /\ clock >= r.trigger_time /\ r.task_id \notin sent

RECURSIVE SendAll(_, _, _, _, _)
SendAll(s, reminders, clock, rs, broken) ==
    IF reminders = <<>> THEN rs
    ELSE SendAll(s, Tail(reminders), clock,
                 IF ShouldSend(Head(reminders), clock, rs.sent)
                 THEN SendReminder(s, Head(reminders), rs, broken) ELSE rs,
                 broken)

(* the body of the loop of _check_all_reminders for one task; an exception *)
(* of _generate_reminders_for_task leaves the loop                         *)
CheckTask_NoDoneSkip(s, t, clock, rs, broken) ==
    IF t.due_date = None THEN rs
    ELSE IF GenerateRaises(t) THEN [rs EXCEPT !.aborted = TRUE]
    ELSE SendAll(s, GenerateRemindersForTask(t, clock), clock, rs, broken)

CheckTask(s, t, clock, rs, broken) ==
    IF t.due_date = None THEN rs
    ELSE IF t.status = "DONE" THEN [rs EXCEPT !.skipped = @ \cup {t.id}]
    ELSE IF GenerateRaises(t) THEN [rs EXCEPT !.aborted = TRUE]
    ELSE SendAll(s, GenerateRemindersForTask(t, clock), clock, rs, broken)

(* ReminderSystem._check_all_reminders: one tick over tasks.values() *)
RECURSIVE CheckLoop(_, _, _, _, _, _)
CheckLoop(o, s, todo, clock, rs, broken) ==
    IF todo = <<>> \/ rs.aborted THEN rs
    ELSE CheckLoop(o, s, Tail(todo), clock,
                   CheckTask(s, o[Head(todo)], clock, rs, broken), broken)

CheckAllReminders(o, s, clock, sent, e, broken) ==
    CheckLoop(o, s, s, clock, TickState(sent, e), broken)

----------------------------------------------------------------------------
(* The scheduler specifications.  SpecSched: one task on disk at start,    *)
(* every edit of the foreground (due date, status, reminder settings), the *)
(* clock, and whole ticks of the loop thread.  SpecSched2: two tasks, the  *)
(* due date and reminder settings edits.                                   *)

DueT == Minutes(32)
DueLater == DueT + Minutes(30)
DueChoices == {None, DueT, DueLater}
Instants ==
    {DueT - Minutes(31), DueT - Minutes(30), DueT - Minutes(29), DueT,
     DueT + Minutes(1), DueT + Minutes(30), DueT + Minutes(30) + 1,
     DueT + Minutes(60)}

DuePatches == {[due_date |-> d] : d \in DueChoices}
StatusPatches == {[status |-> st] : st \in {"TODO", "DONE"}}
(* App.show_task_reminder_settings: both settings in one update_task *)
SettingsPatches ==
    {[reminder_minutes |-> IF m > 1 THEN m ELSE 1, reminder_enabled |-> b] :
        m \in {15, DefaultReminderMinutes}, b \in BOOLEAN}

SchedTasks(n) ==
    [r \in 1..n |-> Task(r, "t", None, "a.org", r)]

InitSchedN(n) ==
    /\ objs = SchedTasks(n)
    /\ order = SeqOfSet(1..n)
    /\ disk = Save(SchedTasks(n), SeqOfSet(1..n), EmptyDisk).disk
    /\ err = "ok"
    /\ now = 1
    /\ nextId = n
    /\ last = [op |-> "load", id |-> None, listing |-> <<"a.org">>, args |-> NoArgs]
    /\ sent_reminders = {}
    /\ emitted = <<>>
    /\ lastTick = NoTick
    /\ running = TRUE
    /\ threads = OneLoop
    /\ tick = IdleTick
    /\ fg = IdleFg

(* time passes *)
Advance(t) ==
    /\ t > now
    /\ now' = t
    /\ last' = [op |-> "advance", id |-> None, listing |-> <<>>, args |-> NoArgs]
    /\ UNCHANGED <<objs, order, disk, err, nextId>>
    /\ UNCHANGED schedVars

(* one iteration of _reminder_loop; `broken` are the tasks whose           *)
(* notifications cannot be delivered during this tick                      *)
TickFailing(broken) ==
    /\ running
    /\ LET rs == CheckAllReminders(objs, order, now, sent_reminders, emitted,
                                   broken)
       IN  /\ sent_reminders' = rs.sent
           /\ emitted' = rs.emitted
           /\ lastTick' = [at |-> now, emits |-> rs.emits,
                            attempts |-> rs.attempts, failed |-> rs.failed,
                            skipped |-> rs.skipped,
                            prev_skipped |-> lastTick.skipped,
                            aborted |-> rs.aborted, torn |-> FALSE]
    /\ last' = [op |-> "tick", id |-> None, listing |-> <<>>, args |-> NoArgs]
    /\ UNCHANGED <<objs, order, disk, err, now, nextId, running, threads, tick,
                   fg>>

(* a tick during which every notification can be delivered *)
Tick == TickFailing({})

InitSched == InitSchedN(1)

NextSched ==
    \/ \E k \in Keys, patch \in DuePatches \cup StatusPatches \cup SettingsPatches :
          update_task(k, patch)
    \/ \E t \in Instants : Advance(t)
    \/ Tick

SpecSched == InitSched /\ [][NextSched]_vars

InitSched2 == InitSchedN(2)

Instants2 == {DueT - Minutes(30), DueT - Minutes(15), DueT}

NextSched2 ==
    \/ \E k \in Keys, patch \in {[due_date |-> DueT]} \cup SettingsPatches :
          update_task(k, patch)
    \/ \E t \in Instants2 : Advance(t)
    \/ Tick

SpecSched2 == InitSched2 /\ [][NextSched2]_vars

----------------------------------------------------------------------------
(* Claims about the scheduler                                              *)

(* the identities delivered by the step *)
NewEmits ==
    {i \in DOMAIN emitted' : i \notin DOMAIN emitted \/ emitted'[i] > emitted[i]}

(* C4: no reminder identity (task id, due_date value, event kind) is       *)
(* emitted more than once: a tick delivers only identities that are not    *)
(* recorded in sent_reminders and were never delivered before.             *)
C4_NoRepeat ==
    [][\A i \in NewEmits :
          /\ i \notin sent_reminders
          /\ i \notin DOMAIN emitted
          /\ emitted'[i] = 1]_vars

(* a tick ran again at the instant at which an identity was delivered and  *)
(* recorded, its reminder still being generated and due, and delivered     *)
(* nothing                                                                 *)
C4_Witness ==
    /\ last.op = "tick"
    /\ lastTick.at = now
    /\ lastTick.emits = {}
    /\ \E k \in Keys :
          /\ objs[k].status # "DONE"
          /\ \E i \in DOMAIN GenerateRemindersForTask(objs[k], now) :
                LET r == GenerateRemindersForTask(objs[k], now)[i]
                IN  /\ now >= r.trigger_time
                    /\ r.task_id \in sent_reminders
                    /\ emitted[r.task_id] = 1

(* the trigger time of each event of a task, as the claims state it *)
Kinds == {"before", "due", "overdue"}
TriggerTime(t, kind) ==
    CASE kind = "before"  -> t.due_date - Minutes(t.reminder_minutes)
      [] kind = "due"     -> t.due_date
      [] kind = "overdue" -> t.due_date + Minutes(OverdueMinutes)

Eligible(t) ==
    t.due_date # None /\ t.status # "DONE" /\ t.reminder_enabled

(* C5: for a task that is not DONE, has reminders enabled and has          *)
(* reminder_minutes = 30, each of the three events is emitted at the first *)
(* tick at or after its trigger time: when a tick has just run, every      *)
(* event of the task whose trigger time is at or before the tick has been  *)
(* emitted.                                                                *)
C5_EmittedWhenDue ==
    last.op = "tick" =>
        \A k \in Keys :
            (Eligible(objs[k]) /\ objs[k].reminder_minutes = DefaultReminderMinutes) =>
                \A kind \in Kinds :
                    TriggerTime(objs[k], kind) <= now =>
                        <<objs[k].id, objs[k].due_date, kind>> \in DOMAIN emitted

(* C6: the trigger time of a task's BEFORE_DUE event is due_date minus     *)
(* that task's own reminder_minutes; two tasks with the same due_date and  *)
(* different reminder_minutes have different BEFORE_DUE trigger times.     *)
BeforeTriggers(t) ==
    {GenerateRemindersForTask(t, now)[i].trigger_time :
        i \in {j \in DOMAIN GenerateRemindersForTask(t, now) :
                  GenerateRemindersForTask(t, now)[j].reminder_type = "before"}}

C6_BeforeUsesOwnMinutes ==
    /\ \A k \in Keys : \A tt \in BeforeTriggers(objs[k]) :
            tt = TriggerTime(objs[k], "before")
    /\ \A k1, k2 \in Keys :
            (/\ objs[k1].due_date = objs[k2].due_date
             /\ objs[k1].reminder_minutes # objs[k2].reminder_minutes)
            => BeforeTriggers(objs[k1]) \cap BeforeTriggers(objs[k2]) = {}

(* C7: a task whose reminder_enabled is false never causes the scheduler   *)
(* to emit an event: every identity a tick delivers belongs to a task      *)
(* whose reminder_enabled is true.                                         *)
C7_DisabledSilent ==
    [][\A i \in NewEmits : objs[i[1]].reminder_enabled]_vars


----------------------------------------------------------------------------
(* The fields specification: tasks are added to one outline file and their *)
(* due date and reminder settings are edited; the application is started   *)
(* again on the directory.                                                 *)

DueSeconds == DueT + 1         \* a due date that is not on a whole minute

FieldPatches == {[due_date |-> d] : d \in {None, DueSeconds}} \cup SettingsPatches

NextFields ==
    \/ \E p \in Keys \cup {None} : add_task(p, "a.org")
    \/ \E k \in Keys, patch \in FieldPatches : update_task(k, patch)
    \/ \E l \in Listings(disk) : load_tasks(l)

SpecFields == Init /\ [][NextFields]_vars

(* field by field equality of a task held by the manager and the task      *)
(* reconstructed from the files, due_date to the minute, tags as a set,    *)
(* children as a set of ids                                                *)
SameTask(a, b, ao, bo) ==
    /\ a.id = b.id
    /\ a.title = b.title
    /\ a.description = b.description
    /\ a.author = b.author
    /\ a.status = b.status
    /\ a.priority = b.priority
    /\ (a.due_date = None) = (b.due_date = None)
    /\ FormatScheduled(a.due_date) = FormatScheduled(b.due_date)
    /\ a.reminder_minutes = b.reminder_minutes
    /\ a.reminder_enabled = b.reminder_enabled
    /\ a.parent_id = b.parent_id
    /\ a.created_at = b.created_at
    /\ a.tags = b.tags
    /\ {ao[c].id : c \in Range(a.children)} = {bo[c].id : c \in Range(b.children)}

(* C3: OrgStorage.save of the task set held by the manager, followed by    *)
(* OrgStorage.load and TaskManager.load_tasks, reconstructs an equivalent  *)
(* task set: the same ids and, for each id, the same field values and the  *)
(* same parent/child structure.                                            *)
C3_RoundTrip ==
    LET sv == Save(objs, order, disk)
    IN  /\ sv.err = "ok"
        /\ \A l \in Listings(sv.disk) :
              LET c == ConstructOp(sv.disk, l, now)
              IN  /\ c.err = "ok"
                  /\ Range(c.order) = Keys
                  /\ \A k \in Keys : SameTask(objs[k], c.objs[k], objs, c.objs)


----------------------------------------------------------------------------
(* The concurrent specification: the foreground thread runs add_task and   *)
(* delete_task while the loop thread runs _check_all_reminders.  Nothing   *)
(* in the code locks the dict, so the threads interleave between the       *)
(* statements that touch it: the dict insertion of add_task, the removal   *)
(* at the end of each level of delete_task (save_tasks, file output, sits  *)
(* between two levels), the creation of the dict iterator, each advance of *)
(* the iterator, and the body of the loop for the task fetched.            *)

ConcTasks ==
    [r \in {1, 2} |->
        [Task(r, "t", IF r = 1 THEN None ELSE 1, "a.org", r)
            EXCEPT !.due_date = DueT,
                   !.children = IF r = 1 THEN <<2>> ELSE <<>>]]

InitConc ==
    /\ objs = ConcTasks
    /\ order = <<1, 2>>
    /\ disk = Save(ConcTasks, <<1, 2>>, EmptyDisk).disk
    /\ err = "ok"
    /\ now = DueT
    /\ nextId = 2
    /\ last = [op |-> "load", id |-> None, listing |-> <<"a.org">>, args |-> NoArgs]
    /\ sent_reminders = {}
    /\ emitted = <<>>
    /\ lastTick = NoTick
    /\ running = TRUE
    /\ threads = OneLoop
    /\ tick = IdleTick
    /\ fg = IdleFg

SetState(st) ==
    /\ objs' = st.objs
    /\ order' = st.order
    /\ disk' = st.disk
    /\ err' = st.err

tickVars == <<sent_reminders, emitted, lastTick, running, threads, tick>>

(* add_task up to self.tasks[new_task.id] = new_task *)
AddBegin(parent_id) ==
    /\ fg.pc = "idle"
    /\ nextId < MaxTasks
    /\ nextId' = nextId + 1
    /\ LET st == InsertTask(State, nextId + 1, "t", parent_id, "a.org", now)
       IN  /\ SetState(st)
           /\ fg' = [IdleFg EXCEPT !.pc = "add", !.id = nextId + 1,
                                   !.parent_id = parent_id,
                                   !.pre = Keys, !.post = Range(st.order)]
    /\ UNCHANGED <<now, last>>
    /\ UNCHANGED tickVars

(* the rest of add_task *)
AddFinish ==
    /\ fg.pc = "add"
    /\ SetState(LinkTask(State, fg.id, fg.parent_id))
    /\ fg' = IdleFg
    /\ last' = [op |-> "add", id |-> fg.id, listing |-> <<>>, args |-> NoArgs]
    /\ UNCHANGED <<now, nextId>>
    /\ UNCHANGED tickVars

(* delete_task(task_id) up to the loop over the children *)
DeleteBegin(task_id) ==
    /\ fg.pc = "idle"
    /\ IF task_id \in Keys
       THEN /\ fg' = [IdleFg EXCEPT
                        !.pc = "delete", !.id = task_id,
                        !.stack = <<[id |-> task_id, kids |-> objs[task_id].children]>>,
                        !.pre = Keys,
                        !.post = Range(DeleteTaskOp(State, task_id).order)]
            /\ UNCHANGED last
       ELSE /\ fg' = IdleFg
            /\ last' = [op |-> "delete", id |-> task_id, listing |-> <<>>, args |-> NoArgs]
    /\ UNCHANGED <<objs, order, disk, err, now, nextId>>
    /\ UNCHANGED tickVars

(* one step of the recursion: the call for the next child, or the end of   *)
(* the innermost level                                                     *)
DeleteStep ==
    /\ fg.pc = "delete"
    /\ LET n == Len(fg.stack)
           top == fg.stack[n]
       IN  IF top.kids # <<>>
           THEN LET child_id == objs[Head(top.kids)].id
                    rest == [fg.stack EXCEPT ![n].kids = Tail(top.kids)]
                IN  /\ IF child_id \notin Keys
                       THEN /\ fg' = [fg EXCEPT !.stack = rest]
                            /\ err' = err
                       ELSE IF n + 1 > RecursionLimit
                       THEN /\ fg' = IdleFg
                            /\ err' = "RecursionError"
                       ELSE /\ fg' = [fg EXCEPT !.stack =
                                        Append(rest, [id |-> child_id,
                                                      kids |-> objs[child_id].children])]
                            /\ err' = err
                    /\ UNCHANGED <<objs, order, disk, last>>
           ELSE LET st == RemoveTask(State, top.id)
                IN  /\ SetState(st)
                    /\ IF n = 1 \/ st.err # "ok"
                       THEN /\ fg' = IdleFg
                            /\ last' = [op |-> "delete", id |-> fg.id, listing |-> <<>>, args |-> NoArgs]
                       ELSE /\ fg' = [fg EXCEPT !.stack = SubSeq(fg.stack, 1, n - 1)]
                            /\ UNCHANGED last
    /\ UNCHANGED <<now, nextId>>
    /\ UNCHANGED tickVars

(* the loop thread looks at the dict while a mutation of the foreground    *)
(* has begun and not finished, and the dict is neither as it was before    *)
(* the mutation nor as it is after                                         *)
SeesTorn == fg.pc # "idle" /\ Keys # fg.pre /\ Keys # fg.post

(* _check_all_reminders up to the creation of the iterator over            *)
(* self.task_manager.tasks.values()                                        *)
TickStart ==
    /\ running
    /\ tick.pc = "idle"
    /\ tick' = [IdleTick EXCEPT !.pc = "iter", !.size = Len(order),
                                !.clock = now, !.torn = SeesTorn]
    /\ UNCHANGED <<objs, order, disk, err, now, nextId, last, sent_reminders,
                   emitted, lastTick, running, threads, fg>>

(* the iterator advances: RuntimeError when the size of the dict changed   *)
(* (caught in _reminder_loop, the tick is over), else the next task, else  *)
(* the end of the tick                                                     *)
TickNext ==
    /\ tick.pc = "iter"
    /\ LET todo == SelectSeq(order, LAMBDA k : k \notin tick.seen)
           done == [at |-> tick.clock, emits |-> tick.emits,
                    attempts |-> tick.attempts, failed |-> tick.failed,
                    skipped |-> tick.skipped,
                    prev_skipped |-> lastTick.skipped, aborted |-> FALSE,
                    torn |-> tick.torn \/ SeesTorn]
       IN  IF Len(order) # tick.size
           THEN /\ tick' = IdleTick
                /\ lastTick' = [done EXCEPT !.aborted = TRUE]
           ELSE IF todo = <<>>
           THEN /\ tick' = IdleTick
                /\ lastTick' = done
           ELSE /\ tick' = [tick EXCEPT !.pc = "body", !.cur = Head(todo),
                                        !.seen = @ \cup {Head(todo)},
                                        !.torn = @ \/ SeesTorn]
                /\ UNCHANGED lastTick
    /\ UNCHANGED <<objs, order, disk, err, now, nextId, last, sent_reminders,
                   emitted, running, threads, fg>>

(* the body of the loop for the task fetched *)
TickBody ==
    /\ tick.pc = "body"
    /\ LET rs == CheckTask(order, objs[tick.cur], tick.clock,
                           [TickState(sent_reminders, emitted) EXCEPT
                               !.emits = tick.emits,
                               !.attempts = tick.attempts,
                               !.failed = tick.failed,
                               !.skipped = tick.skipped], {})
       IN  /\ sent_reminders' = rs.sent
           /\ emitted' = rs.emitted
           /\ IF rs.aborted
              THEN /\ tick' = IdleTick
                   /\ lastTick' = [at |-> tick.clock, emits |-> rs.emits,
                                    attempts |-> rs.attempts,
                                    failed |-> rs.failed,
                                    skipped |-> rs.skipped,
                                    prev_skipped |-> lastTick.skipped,
                                    aborted |-> TRUE, torn |-> tick.torn]
              ELSE /\ tick' = [tick EXCEPT !.pc = "iter", !.emits = rs.emits,
                                           !.attempts = rs.attempts,
                                           !.failed = rs.failed,
                                           !.skipped = rs.skipped]
                   /\ UNCHANGED lastTick
    /\ UNCHANGED <<objs, order, disk, err, now, nextId, last, running, threads,
                   fg>>

NextConc ==
    \/ \E p \in Keys \cup {None} : AddBegin(p)
    \/ AddFinish
    \/ \E k \in Ids : DeleteBegin(k)
    \/ DeleteStep
    \/ TickStart
    \/ TickNext
    \/ TickBody

SpecConc == InitConc /\ [][NextConc]_vars

(* C8: a tick that runs concurrently with add_task and delete_task sees    *)
(* the task map either entirely before or entirely after each mutation,    *)
(* and is never aborted because the map changed during its iteration.      *)
C8_TickSeesWholeMutations == ~lastTick.aborted /\ ~lastTick.torn

----------------------------------------------------------------------------
(* The validation specification: the manager is called directly, as its    *)
(* signatures allow: add_task with any title, update_task with any keyword *)
(* arguments (a key the task does not have, a reminder_minutes below 1,    *)
(* the id field), delete_task.                                             *)

Titles == {"t", ""}
TaskFields == DOMAIN Task(None, "", None, NoStr, None)

UnknownFieldPatch == [color |-> "red", title |-> "u"]
RangePatch == [reminder_minutes |-> 0, title |-> "u"]
IdPatches == {[id |-> j] : j \in Ids}
ManagerPatches == {UnknownFieldPatch, RangePatch} \cup IdPatches

NextValid ==
    \/ \E title \in Titles, p \in Keys \cup {None} : AddTask(title, p, "a.org")
    \/ \E k \in Ids, patch \in ManagerPatches : update_task(k, patch)
    \/ \E k \in Ids : delete_task(k)

SpecValid == Init /\ [][NextValid]_vars

(* C12: add_task with an empty title is rejected: failure is signalled,    *)
(* nothing is inserted into the task map and nothing is written to disk.   *)
C12_EmptyTitleRejected ==
    [][(last'.op = "add" /\ last'.args.title = "") =>
          /\ err' # "ok"
          /\ order' = order
          /\ objs' = objs
          /\ disk' = disk]_vars

(* a patch the validation rules reject: a field the task does not have, or *)
(* reminder_minutes below 1                                                *)
Invalid(patch) ==
    \/ (DOMAIN patch) \ TaskFields # {}
    \/ IF "reminder_minutes" \in DOMAIN patch
       THEN patch.reminder_minutes < 1 ELSE FALSE

(* C13: update_task of an existing task with a patch that holds an         *)
(* unrecognized field or a reminder_minutes below 1 is rejected as a       *)
(* whole: failure is signalled and no field of any task changes, the valid *)
(* fields of the same patch included.                                      *)
C13_InvalidPatchRejected ==
    [][(last'.op = "update" /\ last'.id \in Keys /\ Invalid(last'.args)) =>
          /\ err' # "ok"
          /\ objs' = objs
          /\ disk' = disk]_vars

(* C14: a task's id never changes and the map stays keyed by it: every key *)
(* k of the task map satisfies tasks[k].id = k.                            *)
C14_IdImmutable == \A k \in Keys : objs[k].id = k

----------------------------------------------------------------------------
(* The frame specification: tasks are added with or without a filename,    *)
(* and update_task and delete_task are called with any id, in the map or   *)
(* not.                                                                    *)

NextFrame ==
    \/ \E p \in Keys \cup {None}, f \in FileChoices : add_task(p, f)
    \/ \E k \in Ids, patch \in StatusPatches : update_task(k, patch)
    \/ \E k \in Ids : delete_task(k)

SpecFrame == Init /\ [][NextFrame]_vars

(* C15: update_task and delete_task called with an id that is not in the   *)
(* task map are no-ops: the map, every task's fields and children and the  *)
(* files on disk are unchanged, no save is performed and no error is       *)
(* raised.                                                                 *)
C15_AbsentIdNoOp ==
    [][(last'.op \in {"update", "delete"} /\ last'.id \notin Keys) =>
          /\ order' = order
          /\ objs' = objs
          /\ disk' = disk
          /\ err' = "ok"]_vars

(* update_task was called with an id that is not in a map that holds tasks *)
(* and has files on disk                                                   *)
C15_Witness ==
    /\ last.op = "update"
    /\ last.id \notin Keys
    /\ Keys # {}
    /\ DOMAIN disk # {}

----------------------------------------------------------------------------
(* The records specification: the application is started on a directory of *)
(* two outline files.  a.org was written by hand: at most MaxNodes nodes,  *)
(* each with or without an id property, with a status and a priority that  *)
(* are codes or not.  b.org holds one node written by save.                *)

RecordChoices ==
    {[OrgNode(Task(i, "t", None, "a.org", 1), 1)
         EXCEPT !.status = st, !.priority = pr] :
        i \in {1, 2, None}, st \in {"TODO", "BOGUS"}, pr \in {"D", "Z"}}

RecordDirectories ==
    {[f \in Files |->
        IF f = "a.org" THEN nodes
        ELSE <<OrgNode(Task(MaxTasks, "t", None, f, 1), 1)>>] :
        nodes \in UNION {[1..n -> RecordChoices] : n \in 0..MaxNodes}}

InitRecords ==
    /\ disk \in RecordDirectories
    /\ \E l \in Listings(disk) :
          LET c == ConstructOp(disk, l, 1)
          IN  /\ objs = c.objs
              /\ order = c.order
              /\ err = c.err
              /\ last = [op |-> "load", id |-> None, listing |-> l, args |-> NoArgs]
    /\ now = 1
    /\ nextId = MaxTasks
    /\ IdleSched

NextRecords == \E l \in Listings(disk) : load_tasks(l)

SpecRecords == InitRecords /\ [][NextRecords]_vars

(* C16: a record that has no id in its metadata block is dropped: after    *)
(* load the task map holds no task that originates from such a record.     *)
C16_NoIdDropped ==
    last.op = "load" => \A k \in Keys : objs[k].id # NA

(* the records on disk, and the ids of the well-formed ones that have one  *)
Records == UNION {Range(disk[f]) : f \in DOMAIN disk}
GoodIds == {n.id : n \in {m \in Records : WellFormed(m) /\ m.id # None}}

(* C17: when a record of an outline file is malformed (its status or       *)
(* priority is none of the codes), load skips only that record: the load   *)
(* does not fail, every other record of that file and of the other files   *)
(* is loaded, and the malformed record is not.                             *)
C17_MalformedSkipped ==
    last.op = "load" =>
        /\ err = "ok"
        /\ GoodIds \subseteq Keys
        /\ \A k \in Keys : k # NA => k \in GoodIds

----------------------------------------------------------------------------
(* C20: no tick emits an event for a task whose status is DONE at that     *)
(* tick, whatever its due_date; a task switched back from DONE to TODO is  *)
(* eligible again at the next tick: that tick does not skip it and emits   *)
(* each of its reminders that is due and not recorded as sent.             *)
C20_DoneSilent ==
    [][/\ \A i \in NewEmits : objs[i[1]].status # "DONE"
       /\ last'.op = "tick" =>
             \A k \in lastTick.skipped \cap Keys :
                objs[k].status # "DONE" =>
                   /\ k \notin lastTick'.skipped
                   /\ \A j \in DOMAIN GenerateRemindersForTask(objs[k], now) :
                         LET r == GenerateRemindersForTask(objs[k], now)[j]
                         IN  ShouldSend(r, now, sent_reminders) =>
                                r.task_id \in NewEmits]_vars

(* a tick emitted an event of a task that the tick before had skipped as   *)
(* DONE                                                                    *)
C20_Witness ==
    /\ last.op = "tick"
    /\ \E i \in lastTick.emits : i[1] \in lastTick.prev_skipped

----------------------------------------------------------------------------
(* The failure specification: two tasks, due dates set from the            *)
(* foreground (one of them so late that due_date + 30 minutes is outside   *)
(* the datetime range), the clock, and ticks during which the              *)
(* notifications of some tasks cannot be delivered.                        *)

DueLast == DatetimeMax - Minutes(10)
FailPatches == {[due_date |-> d] : d \in {DueT, DueLast}}
InstantsFail == {DueT, DueT + 1, DueT + Minutes(30)}

NextFail ==
    \/ \E k \in Keys, patch \in FailPatches : update_task(k, patch)
    \/ \E t \in InstantsFail : Advance(t)
    \/ \E broken \in SUBSET Keys : TickFailing(broken)

SpecFail == InitSched2 /\ [][NextFail]_vars

(* the reminders of task k that a tick at `now` has to send *)
DueReminders(k) ==
    {GenerateRemindersForTask(objs[k], now)[j].task_id :
        j \in {l \in DOMAIN GenerateRemindersForTask(objs[k], now) :
                  ShouldSend(GenerateRemindersForTask(objs[k], now)[l], now,
                             sent_reminders)}}

(* C18: a failure while processing one task's events (computing them or    *)
(* delivering one) does not abort the tick: every other task with a due    *)
(* event is still processed in that same tick, that is, the delivery of    *)
(* each of its due reminders is attempted.                                 *)
C18_FailureIsolated ==
    [][last'.op = "tick" =>
          \A k \in Keys :
             (/\ objs[k].due_date # None
              /\ objs[k].status # "DONE"
              /\ ~GenerateRaises(objs[k]))
             => DueReminders(k) \subseteq lastTick'.attempts]_vars

(* C19: when the delivery of a notification fails, its identity is not     *)
(* recorded as sent, and the event is attempted again at the next tick     *)
(* (one that is not itself aborted, for a task still in the map, not DONE, *)
(* with the same due_date).                                                *)
C19_FailedIsRetried ==
    [][last'.op = "tick" =>
          /\ \A i \in lastTick'.failed : i \notin sent_reminders'
          /\ \A i \in lastTick.failed :
                (/\ i \notin sent_reminders
                 /\ i[1] \in Keys
                 /\ objs[i[1]].due_date = i[2]
                 /\ objs[i[1]].status # "DONE"
                 /\ ~lastTick'.aborted)
                => i \in lastTick'.attempts]_vars

----------------------------------------------------------------------------
(* The lifecycle specification: start() and stop() called from the         *)
(* foreground, and the loop threads of _reminder_loop.  A loop thread is   *)
(* at the test of `while self.running` ("test"), past the test and about   *)
(* to call _check_all_reminders ("check"), inside it ("tick"), in          *)
(* time.sleep ("sleep"), or has left the loop ("dead").  stop() sets       *)
(* running and waits in join(timeout=1) for the thread created last; the   *)
(* wait ends when that thread is dead or when the second has passed.  A    *)
(* thread that is at the test or past it is runnable: it evaluates the     *)
(* test and enters _check_all_reminders at once, long before that second   *)
(* is over; a tick and time.sleep(check_interval) can outlast the wait.    *)

MaxThreads == 3        \* loop threads created in one behaviour

NewLoop == [pc |-> "test"]

Alive == {i \in DOMAIN threads : threads[i].pc # "dead"}

Mark(op, id, args) == [op |-> op, id |-> id, listing |-> <<>>, args |-> args]

(* ReminderSystem.start *)
StartOp_NoGuard(r, th) ==
    [running |-> TRUE, threads |-> Append(th, NewLoop)]

StartOp(r, th) ==
    IF r THEN [running |-> r, threads |-> th]
    ELSE [running |-> TRUE, threads |-> Append(th, NewLoop)]

start ==
    /\ fg.pc = "idle"
    /\ LET st == StartOp(running, threads)
       IN  /\ Len(st.threads) <= MaxThreads
           /\ running' = st.running
           /\ threads' = st.threads
    /\ last' = Mark("start", None, [running |-> running])
    /\ UNCHANGED <<objs, order, disk, err, now, nextId, sent_reminders, emitted,
                   lastTick, tick, fg>>

(* ReminderSystem.stop up to the join *)
StopBegin ==
    /\ fg.pc = "idle"
    /\ running' = FALSE
    /\ IF threads # <<>>
       THEN /\ fg' = [IdleFg EXCEPT !.pc = "join"]
            /\ last' = Mark("stopping", None, [running |-> running])
       ELSE /\ fg' = IdleFg
            /\ last' = Mark("stop", None, [running |-> running])
    /\ UNCHANGED <<objs, order, disk, err, now, nextId, sent_reminders, emitted,
                   lastTick, threads, tick>>

(* join(timeout=1) returns, the thread dead or not *)
StopReturn ==
    /\ fg.pc = "join"
    /\ \A i \in DOMAIN threads : threads[i].pc \notin {"test", "check"}
    /\ fg' = IdleFg
    /\ last' = Mark("stop", None, last.args)
    /\ UNCHANGED <<objs, order, disk, err, now, nextId, sent_reminders, emitted,
                   lastTick, running, threads, tick>>

(* `while self.running` *)
LoopContinues_Always(r) == TRUE

LoopContinues(r) == r

LoopTest(i) ==
    /\ threads[i].pc = "test"
    /\ threads' = [threads EXCEPT
                      ![i].pc = IF LoopContinues(running) THEN "check" ELSE "dead"]
    /\ last' = Mark("loop", i, NoArgs)
    /\ UNCHANGED <<objs, order, disk, err, now, nextId, sent_reminders, emitted,
                   lastTick, running, tick, fg>>

(* _check_all_reminders is entered and runs *)
LoopTick(i) ==
    /\ threads[i].pc = "check"
    /\ threads' = [threads EXCEPT ![i].pc = "tick"]
    /\ LET rs == CheckAllReminders(objs, order, now, sent_reminders, emitted, {})
       IN  /\ sent_reminders' = rs.sent
           /\ emitted' = rs.emitted
           /\ lastTick' = [at |-> now, emits |-> rs.emits,
                            attempts |-> rs.attempts, failed |-> rs.failed,
                            skipped |-> rs.skipped,
                            prev_skipped |-> lastTick.skipped,
                            aborted |-> rs.aborted, torn |-> FALSE]
    /\ last' = Mark("tick", i, NoArgs)
    /\ UNCHANGED <<objs, order, disk, err, now, nextId, running, tick, fg>>

(* _check_all_reminders returns (or raises into the except); time.sleep    *)
LoopSleep(i) ==
    /\ threads[i].pc = "tick"
    /\ threads' = [threads EXCEPT ![i].pc = "sleep"]
    /\ last' = Mark("loop", i, NoArgs)
    /\ UNCHANGED <<objs, order, disk, err, now, nextId, sent_reminders, emitted,
                   lastTick, running, tick, fg>>

(* time.sleep(self.check_interval) returns *)
LoopWake(i) ==
    /\ threads[i].pc = "sleep"
    /\ threads' = [threads EXCEPT ![i].pc = "test"]
    /\ last' = Mark("loop", i, NoArgs)
    /\ UNCHANGED <<objs, order, disk, err, now, nextId, sent_reminders, emitted,
                   lastTick, running, tick, fg>>

(* the next step of loop thread i *)
Loop(i) ==
    /\ i \in DOMAIN threads
    /\ (LoopTest(i) \/ LoopTick(i) \/ LoopSleep(i) \/ LoopWake(i))

LoopStep == \E i \in 1..MaxThreads : Loop(i)

LifeTasks == [r \in {1} |-> [Task(r, "t", None, "a.org", r) EXCEPT !.due_date = DueT]]

InitLife ==
    /\ objs = LifeTasks
    /\ order = <<1>>
    /\ disk = Save(LifeTasks, <<1>>, EmptyDisk).disk
    /\ err = "ok"
    /\ now = DueT
    /\ nextId = 1
    /\ last = [op |-> "load", id |-> None, listing |-> <<"a.org">>, args |-> NoArgs]
    /\ IdleSched

NextLife ==
    \/ start
    \/ StopBegin
    \/ StopReturn
    \/ LoopStep

SpecLife == InitLife /\ [][NextLife]_vars

(* C21: start() on a scheduler that is already running is a no-op: no      *)
(* second loop thread is created and no scheduler state changes.           *)
C21_StartIdempotent ==
    [][(last'.op = "start" /\ last'.args.running) =>
          /\ threads' = threads
          /\ running' = running
          /\ sent_reminders' = sent_reminders
          /\ emitted' = emitted
          /\ lastTick' = lastTick
          /\ tick' = tick]_vars

(* start() was called on a running scheduler whose loop thread is alive *)
C21_Witness ==
    /\ last.op = "start"
    /\ last.args.running
    /\ running
    /\ Alive # {}

----------------------------------------------------------------------------
(* The lifecycle specification with its scheduling: every loop thread that *)
(* can take a step takes it (a tick ends, time.sleep returns after         *)
(* check_interval), and join(timeout=1) returns.                           *)

SpecLifeFair ==
    /\ SpecLife
    /\ \A i \in 1..MaxThreads : WF_vars(Loop(i))
    /\ WF_vars(StopReturn)

C27_SingleLoop ==
    Cardinality({i \in DOMAIN threads : threads[i].pc \in {"check", "tick"}}) <= 1

----------------------------------------------------------------------------
(* The query specification: two tasks whose titles are short texts (a text *)
(* is the sequence of its characters), due dates set from the foreground,  *)
(* and the read operations of the manager.  The value a read operation     *)
(* returns is recorded as [kind, value]: kind "value" with what was        *)
(* returned, or kind "None" when the call returns None.                    *)

QueryTitles == {<<"a", "b">>, <<"A">>, <<"b", "a">>, <<"b">>}
Queries == {<<>>} \cup {<<c>> : c \in {"a", "A", "b"}} \cup {<<"a", "b">>, <<"B">>}

Returned(v) == [kind |-> "value", value |-> v]
ReturnedNone == [kind |-> "None", value |-> <<>>]

(* TaskManager.search_tasks: the body is `pass` *)
SearchTasks(o, s, query) == ReturnedNone

(* TaskManager.get_tasks_with_due_dates: the body is `pass` *)
GetTasksWithDueDates(o, s) == ReturnedNone

(* sorted(..., key=lambda t: t.due_date): a stable sort of references *)
RECURSIVE InsertByDue(_, _, _)
InsertByDue(o, r, s) ==
    IF s = <<>> THEN <<r>>
    ELSE IF o[Head(s)].due_date <= o[r].due_date
         THEN <<Head(s)>> \o InsertByDue(o, r, Tail(s))
         ELSE <<r>> \o s

RECURSIVE SortByDue(_, _)
SortByDue(o, s) ==
    IF s = <<>> THEN <<>>
    ELSE InsertByDue(o, s[Len(s)], SortByDue(o, SubSeq(s, 1, Len(s) - 1)))

(* TaskManager.get_all_tasks_flat: the tasks that have a due_date, by       *)
(* due_date                                                                 *)
GetAllTasksFlat(o, s) ==
    Returned(SortByDue(o, SelectSeq(s, LAMBDA k : o[k].due_date # None)))

(* a read operation: no state of the manager changes *)
Read(op, args) ==
    /\ last' = Mark(op, None, args)
    /\ UNCHANGED <<objs, order, disk, err, now, nextId>>
    /\ UNCHANGED schedVars

search_tasks(query) ==
    Read("search", [query |-> query, result |-> SearchTasks(objs, order, query)])

get_tasks_with_due_dates ==
    Read("with_due_dates", [result |-> GetTasksWithDueDates(objs, order)])

get_all_tasks_flat ==
    Read("all_tasks_flat", [result |-> GetAllTasksFlat(objs, order)])

QueryTasks(t1, t2) ==
    [r \in {1, 2} |-> Task(r, IF r = 1 THEN t1 ELSE t2, None, "a.org", r)]

InitQuery ==
    /\ \E t1, t2 \in QueryTitles :
          /\ objs = QueryTasks(t1, t2)
          /\ disk = Save(QueryTasks(t1, t2), <<1, 2>>, EmptyDisk).disk
    /\ order = <<1, 2>>
    /\ err = "ok"
    /\ now = 1
    /\ nextId = 2
    /\ last = [op |-> "load", id |-> None, listing |-> <<"a.org">>, args |-> NoArgs]
    /\ IdleSched

NextQuery ==
    \/ \E k \in Keys, patch \in DuePatches : update_task(k, patch)
    \/ \E q \in Queries : search_tasks(q)
    \/ get_tasks_with_due_dates
    \/ get_all_tasks_flat

SpecQuery == InitQuery /\ [][NextQuery]_vars

(* str.lower *)
Lower(c) ==
    LET lower == [A |-> "a", B |-> "b", C |-> "c", D |-> "d", E |-> "e", F |-> "f", G |-> "g",
                  H |-> "h", I |-> "i", J |-> "j", K |-> "k", L |-> "l", M |-> "m", N |-> "n",
                  O |-> "o", P |-> "p", Q |-> "q", R |-> "r", S |-> "s", T |-> "t", U |-> "u",
                  V |-> "v", W |-> "w", X |-> "x", Y |-> "y", Z |-> "z"]
    IN  IF c \in DOMAIN lower THEN lower[c] ELSE c

(* case-insensitive substring of a title *)
Contains(text, q) ==
    \E i \in 0..(Len(text) - Len(q)) :
        \A j \in 1..Len(q) : Lower(text[i + j]) = Lower(q[j])

NoRepeats(items) ==
    \A i, j \in DOMAIN items : i # j => items[i] # items[j]

(* C23: search(query) returns a sequence that holds exactly the tasks      *)
(* whose title contains the query as a case-insensitive substring, and an  *)
(* empty sequence (not all tasks, not an absent value) for the empty       *)
(* query.                                                                  *)
C23_SearchMatchesTitle ==
    last.op = "search" =>
        LET q == last.args.query
            r == last.args.result
        IN  /\ r.kind = "value"
            /\ NoRepeats(r.value)
            /\ Range(r.value) =
                  IF q = <<>> THEN {}
                  ELSE {k \in Keys : Contains(objs[k].title, q)}

(* a result that holds exactly the tasks with a due_date, by due_date      *)
(* ascending                                                               *)
IsDueList(r) ==
    /\ r.kind = "value"
    /\ NoRepeats(r.value)
    /\ Range(r.value) = {k \in Keys : objs[k].due_date # None}
    /\ \A i, j \in DOMAIN r.value :
          i < j => objs[r.value[i]].due_date <= objs[r.value[j]].due_date

(* C24: list_with_due_dates (TaskManager.get_tasks_with_due_dates) returns *)
(* exactly the tasks of the map whose due_date is set, ordered by due_date *)
(* ascending, and no task without a due_date.                              *)
C24_DueListExact ==
    last.op = "with_due_dates" => IsDueList(last.args.result)

----------------------------------------------------------------------------
(* parse_flexible_date.  A text is the sequence of its characters.  The    *)
(* value returned is recorded as for the read operations; a datetime is    *)
(* an instant relative to the reference time or the calendar fields of an  *)
(* absolute date.                                                          *)

Digits == {"0", "1", "2", "3", "4", "5", "6", "7", "8", "9"}
Whitespace == {" "}

DigitValue(c) ==
    CASE c = "0" -> 0 [] c = "1" -> 1 [] c = "2" -> 2 [] c = "3" -> 3
      [] c = "4" -> 4 [] c = "5" -> 5 [] c = "6" -> 6 [] c = "7" -> 7
      [] c = "8" -> 8 [] c = "9" -> 9

(* int(digits) *)
RECURSIVE NumberOf(_)
NumberOf(ds) ==
    IF ds = <<>> THEN 0
    ELSE NumberOf(SubSeq(ds, 1, Len(ds) - 1)) * 10 + DigitValue(ds[Len(ds)])

LowerText(text) == [i \in 1..Len(text) |-> Lower(text[i])]

(* the length of the longest run of characters of C that starts at i *)
RECURSIVE Run(_, _, _)
Run(text, i, C) ==
    IF i <= Len(text) /\ text[i] \in C THEN 1 + Run(text, i + 1, C) ELSE 0

(* str.strip *)
RECURSIVE StripRight(_)
StripRight(text) ==
    IF text # <<>> /\ text[Len(text)] \in Whitespace
    THEN StripRight(SubSeq(text, 1, Len(text) - 1))
    ELSE text

Strip(text) ==
    StripRight(SubSeq(text, Run(text, 1, Whitespace) + 1, Len(text)))

(* re.match(r'in\s+(\d+)\s*(h|m|d)', text): a match at the start of the    *)
(* text; what follows the unit letter is not looked at                     *)
ReMatchRelative(text) ==
    LET sp == Run(text, 3, Whitespace)
        d0 == 3 + sp
        nd == Run(text, d0, Digits)
        u0 == d0 + nd + Run(text, d0 + nd, Whitespace)
    IN  IF /\ Len(text) >= 2
           /\ text[1] = "i"
           /\ text[2] = "n"
           /\ sp >= 1
           /\ nd >= 1
           /\ u0 <= Len(text)
           /\ text[u0] \in {"h", "m", "d"}
        THEN [matched |-> TRUE,
              value |-> NumberOf(SubSeq(text, d0, d0 + nd - 1)),
              unit |-> text[u0]]
        ELSE [matched |-> FALSE, value |-> 0, unit |-> ""]

AllDigits(t) == \A i \in DOMAIN t : t[i] \in Digits

(* the texts the directives of strptime accept *)
IsYear(t) == Len(t) = 4 /\ AllDigits(t)
IsMonth(t) == Len(t) \in {1, 2} /\ AllDigits(t) /\ NumberOf(t) \in 1..12
IsDay(t) ==
    \/ Len(t) \in {1, 2} /\ AllDigits(t) /\ NumberOf(t) \in 1..31
    \/ Len(t) = 2 /\ t[1] = " " /\ t[2] \in Digits \ {"0"}
IsHour(t) == Len(t) \in {1, 2} /\ AllDigits(t) /\ NumberOf(t) \in 0..23
IsMinute(t) == Len(t) \in {1, 2} /\ AllDigits(t) /\ NumberOf(t) \in 0..59

(* datetime(y, m, d, ...) raises ValueError outside the calendar *)
ValidDate(y, m, d) ==
    LET leap == y % 4 = 0 /\ (y % 100 # 0 \/ y % 400 = 0)
        days == IF m = 2 THEN (IF leap THEN 29 ELSE 28)
                ELSE IF m \in {4, 6, 9, 11} THEN 30 ELSE 31
    IN  y >= 1 /\ d <= days

(* datetime.strptime(text, '%Y-%m-%d') and, with withTime,                 *)
(* datetime.strptime(text, '%Y-%m-%d %H:%M'): the whole text has to match  *)
Strptime(text, withTime) ==
    LET n == Len(text)
        Sub(t, a, b) == IF a <= b THEN SubSeq(t, a, b) ELSE <<>>
        DayValue(t) == IF t[1] = " " THEN DigitValue(t[2]) ELSE NumberOf(t)
        m0 == 6
        m1 == m0 + Run(text, m0, Digits)          \* the "-" after the month
        d0 == m1 + 1
        d1 == IF d0 <= n /\ text[d0] = " "
              THEN d0 + 2
              ELSE d0 + Run(text, d0, Digits)     \* one past the day
        h0 == d1 + Run(text, d1, Whitespace)
        h1 == h0 + Run(text, h0, Digits)          \* the ":" after the hour
        Y == Sub(text, 1, 4)
        M == Sub(text, m0, m1 - 1)
        D == Sub(text, d0, IF d1 - 1 <= n THEN d1 - 1 ELSE n)
        H == Sub(text, h0, h1 - 1)
        Mi == Sub(text, h1 + 1, n)
        dateOk == /\ n >= 5
                  /\ IsYear(Y)
                  /\ text[5] = "-"
                  /\ IsMonth(M)
                  /\ m1 <= n
                  /\ text[m1] = "-"
                  /\ D # <<>>
                  /\ IsDay(D)
        timeOk == /\ h0 > d1
                  /\ IsHour(H)
                  /\ h1 <= n
                  /\ text[h1] = ":"
                  /\ IsMinute(Mi)
    IN  IF /\ dateOk
           /\ IF withTime THEN timeOk ELSE d1 - 1 = n
           /\ ValidDate(NumberOf(Y), NumberOf(M), DayValue(D))
        THEN [ok |-> TRUE, y |-> NumberOf(Y), m |-> NumberOf(M),
              d |-> DayValue(D),
              hour |-> IF withTime THEN NumberOf(H) ELSE 0,
              minute |-> IF withTime THEN NumberOf(Mi) ELSE 0]
        ELSE [ok |-> FALSE, y |-> 0, m |-> 0, d |-> 0, hour |-> 0, minute |-> 0]

(* datetime.timedelta(hours=v) / (minutes=v) / (days=v), in time units *)
Timedelta(value, unit) ==
    IF unit = "h" THEN Minutes(60 * value)
    ELSE IF unit = "m" THEN Minutes(value)
    ELSE Minutes(24 * 60 * value)

ParseFlexibleDate(date_string, clock) ==
    LET text == Strip(LowerText(date_string))
        match == ReMatchRelative(text)
        full == Strptime(text, TRUE)
        date == Strptime(text, FALSE)
    IN  IF text = <<"t", "o", "m", "o", "r", "r", "o", "w">>
        THEN Returned([day |-> "now + 1 day", hour |-> 9, minute |-> 0])
        ELSE IF text = <<"t", "o", "d", "a", "y">>
        THEN Returned([day |-> "now", hour |-> 23, minute |-> 59])
        ELSE IF match.matched
        THEN Returned([at |-> clock + Timedelta(match.value, match.unit)])
        ELSE IF full.ok
        THEN Returned([y |-> full.y, m |-> full.m, d |-> full.d,
                       hour |-> full.hour, minute |-> full.minute])
        ELSE IF date.ok
        THEN Returned([y |-> date.y, m |-> date.m, d |-> date.d,
                       hour |-> 9, minute |-> 0])
        ELSE ReturnedNone

(* the texts typed into the due date field *)
Texts ==
    {<<"t", "o", "m", "o", "r", "r", "o", "w">>,
     <<"t", "o", "d", "a", "y">>,
     <<" ", "T", "o", "d", "a", "y", " ">>,
     <<"T", "O", "M", "O", "R", "R", "O", "W">>,
     <<"t", "o", "m", "o", "r", "r", "o", "w", " ", "x">>,
     <<"t", "o", "d", "a", "y", "s">>,
     <<>>,
     <<"n", "o", "w">>}
    \cup
    {<<"i", "n">> \o sp \o dg \o sp2 \o un \o tl :
        sp \in {<<>>, <<" ">>, <<" ", " ">>},
        dg \in {<<>>, <<"2">>, <<"3">>, <<"3", "0">>},
        sp2 \in {<<>>, <<" ">>},
        un \in {<<>>, <<"h">>, <<"m">>, <<"d">>, <<"H">>, <<"w">>},
        tl \in {<<>>, <<"x">>, <<"o", "n", "t", "h", "s">>, <<" ">>}}
    \cup
    {<<"2", "0", "2", "5", "-", "0", "1", "-", "0", "2">>,
     <<"2", "0", "2", "5", "-", "0", "1", "-", "0", "2", " ", "1", "0", ":", "3", "0">>,
     <<"2", "0", "2", "5", "-", "1", "-", "2">>,
     <<"2", "0", "2", "5", "-", "1", "3", "-", "0", "2">>,
     <<"2", "0", "2", "5", "-", "0", "2", "-", "3", "0">>,
     <<"2", "0", "2", "4", "-", "0", "2", "-", "2", "9">>,
     <<"2", "0", "2", "5", "-", "0", "1", "-", "0", "2", "x">>,
     <<"2", "0", "2", "5", "-", "0", "1", "-", "0", "2", " ", "1", "0", ":", "3", "0", ":", "0", "0">>,
     <<"2", "0", "2", "5", "-", "0", "1", "-", "0", "2", " ", " ", "9", ":", "5">>,
     <<"2", "5", "-", "0", "1", "-", "0", "2">>,
     <<"0", "0", "0", "0", "-", "0", "1", "-", "0", "2">>,
     <<"2", "0", "2", "5", "-", "0", "1", "-", "0", "2", " ", "2", "4", ":", "0", "0">>,
     <<"2", "0", "2", "5", "-", "0", "1", "-", " ", "2">>,
     <<"2", "0", "2", "5", "-", "0", "1", "-", "0", "2", "T", "1", "0", ":", "3", "0">>}

InitParse ==
    /\ disk = EmptyDisk
    /\ objs = <<>>
    /\ order = <<>>
    /\ err = "ok"
    /\ now = 1
    /\ nextId = 0
    /\ \E text \in Texts : last = Mark("input", None, [text |-> text])
    /\ IdleSched

parse_flexible_date ==
    /\ last.op = "input"
    /\ last' = Mark("parse", None,
                    [text |-> last.args.text,
                     result |-> ParseFlexibleDate(last.args.text, now)])
    /\ UNCHANGED <<objs, order, disk, err, now, nextId>>
    /\ UNCHANGED schedVars

NextParse == parse_flexible_date

SpecParse == InitParse /\ [][NextParse]_vars

(* the five forms, each as a whole text (after lower-casing and removing   *)
(* surrounding blanks)                                                     *)
TwoDigits(t) == Len(t) = 2 /\ AllDigits(t)
IsRelativeForm(t) ==
    LET sp == Run(t, 3, Whitespace)
        nd == Run(t, 3 + sp, Digits)
        u0 == 3 + sp + nd + Run(t, 3 + sp + nd, Whitespace)
    IN  /\ Len(t) >= 2 /\ t[1] = "i" /\ t[2] = "n"
        /\ nd >= 1
        /\ u0 = Len(t)
        /\ t[u0] \in {"h", "m", "d"}
IsDateForm(t) ==
    /\ Len(t) = 10
    /\ IsYear(SubSeq(t, 1, 4)) /\ t[5] = "-"
    /\ TwoDigits(SubSeq(t, 6, 7)) /\ t[8] = "-"
    /\ TwoDigits(SubSeq(t, 9, 10))
IsDateTimeForm(t) ==
    /\ Len(t) = 16
    /\ IsDateForm(SubSeq(t, 1, 10)) /\ t[11] = " "
    /\ TwoDigits(SubSeq(t, 12, 13)) /\ t[14] = ":"
    /\ TwoDigits(SubSeq(t, 15, 16))
Recognized(text) ==
    LET t == Strip(LowerText(text))
    IN  \/ t = <<"t", "o", "m", "o", "r", "r", "o", "w">>
        \/ t = <<"t", "o", "d", "a", "y">>
        \/ IsRelativeForm(t)
        \/ IsDateTimeForm(t)
        \/ IsDateForm(t)

(* C25: parse_flexible_date returns none for every text that is not, as a  *)
(* whole, one of the five recognized forms; a text that only starts with a *)
(* relative pattern and goes on with other characters yields none.         *)
C25_UnrecognizedIsNone ==
    (last.op = "parse" /\ ~Recognized(last.args.text))
        => last.args.result.kind = "None"

----------------------------------------------------------------------------
(* the files that storage.save writes when it is handed the tasks of the   *)
(* map (o, s): every file that a task of the map names                     *)
FilesOf(o, s) == Range(FileOrder(o, s))

(* C26: every add_task, and every update_task and delete_task on an        *)
(* existing id, applies the change to the map and then calls storage.save  *)
(* with the complete current task set: when the operation has completed,   *)
(* the files of the tasks of the map are what a save of exactly the tasks  *)
(* of the map, as they are after the change, writes.                       *)
C26_SaveAfterEveryMutation ==
    [][(/\ \/ last'.op = "add"
           \/ last'.op \in {"update", "delete"} /\ last'.id \in Keys
        /\ err' = "ok") =>
          LET sv == Save(objs', order', disk)
          IN  /\ sv.err = "ok"
              /\ \A f \in FilesOf(objs', order') :
                    f \in DOMAIN disk' /\ disk'[f] = sv.disk[f]]_vars

(* a task of a map of two tasks or more was updated and the save went      *)
(* through: the file holds a node for every task of the map                *)
C26_Witness ==
    /\ last.op = "update"
    /\ last.id \in Keys
    /\ last.args # NoArgs
    /\ err = "ok"
    /\ Len(order) >= 2
    /\ \A k \in Keys : \E i \in DOMAIN disk["a.org"] : disk["a.org"][i].id = k

----------------------------------------------------------------------------
(* the ids a new TaskManager holds when it is constructed over directory d *)
(* (listed in order l) and its load goes through                           *)
Reloaded(d, l, clock) ==
    LET st == ConstructOp(d, l, clock)
    IN  IF st.err = "ok" THEN Range(st.order) ELSE {}

(* C28: after delete_task(id) has completed and persisted, a new           *)
(* TaskManager loaded from the same directory holds no task with that id   *)
(* nor with the id of one of its descendants, also when the deleted tasks  *)
(* were the only tasks of their file.                                      *)
C28_DeletedStayDeleted ==
    [][\A k \in Ids :
         (IsDelete(k) /\ err' = "ok") =>
            \A l \in Listings(disk') :
                Reloaded(disk', l, now') \cap (Descendants(objs, Keys, k) \cup {k}) = {}]_vars

----------------------------------------------------------------------------
(* C29: a task that has no origin file (add_task without a filename) is    *)
(* saved into the default outline file: the save that add_task triggers    *)
(* succeeds and a later load returns the task.                             *)
C29_DefaultFileUsed ==
    (/\ last.op = "add"
     /\ last.id \in Keys
     /\ objs[last.id].file = NoStr) =>
        /\ err = "ok"
        /\ \A l \in Listings(disk) : last.id \in Reloaded(disk, l, now)

----------------------------------------------------------------------------
(* the places (file, position) of directory d where a node with id k is    *)
(* written, in the files that a save of the map (o, s) writes              *)
Places(o, s, d, k) ==
    UNION {{<<f, i>> : i \in {j \in DOMAIN d[f] : d[f][j].id = k}} :
              f \in FilesOf(o, s) \cap DOMAIN d}

(* the one place of task k is in its own file at depth 1 for a root, and   *)
(* in the file of its parent, one level below it, for a child              *)
WellPlaced(o, s, d, k) ==
    \A pl \in Places(o, s, d, k) :
        IF o[k].parent_id = None
        THEN pl[1] = o[k].file /\ d[pl[1]][pl[2]].level = 1
        ELSE \E pp \in Places(o, s, d, o[k].parent_id) :
                /\ pp[1] = pl[1]
                /\ d[pl[1]][pl[2]].level = d[pp[1]][pp[2]].level + 1

(* C30: in the output of one save every task of the map is written exactly *)
(* once: a root at depth 1 in its own file, every child in the file of its *)
(* parent at its parent's depth plus 1; no task is both a top-level and a  *)
(* nested heading, and no task is in two files.                            *)
C30_WrittenExactlyOnce ==
    [][(/\ \/ last'.op = "add"
           \/ last'.op \in {"update", "delete"} /\ last'.id \in Keys
        /\ err' = "ok") =>
          \A k \in Range(order') :
              /\ Cardinality(Places(objs', order', disk', k)) = 1
              /\ WellPlaced(objs', order', disk', k)]_vars

====
